---- MODULE Spec2Model ----
(***************************************************************************)
(* Message-body classification and decoding of ton_client::abi             *)
(* (src/ton_client/src/abi/decode_message.rs).                             *)
(*                                                                         *)
(* A body (SliceData) is a sequence of 32-bit words; every selector,       *)
(* header field and parameter occupies one word.  One call of an entry     *)
(* point is followed through the positions of DecodedMessageBody::decode:  *)
(* the match on (internal_dst, responsible), the output trial and the      *)
(* input trial.  The variable trace records every read of a body cursor.   *)
(***************************************************************************)
EXTENDS Integers, Sequences, FiniteSets, TLC

VARIABLES pc, entry, message, abi, responsible, body, is_internal, internal_dst,
          allow_partial, classifier_body, output, result, trace

vars == <<pc, entry, message, abi, responsible, body, is_internal, internal_dst,
          allow_partial, classifier_body, output, result, trace>>

\* ------------------------------------------------------------- bounds
MaxLen == 3
MaxWord == 2
MaxId == 1
HeaderLen == 1

Words == 0 .. MaxWord
Ids == 0 .. MaxId
Slices == UNION {[1 .. n -> Words] : n \in 0 .. MaxLen}
Addresses == {"A", "B"}

\* ------------------------------------------------------------- Option
None == <<>>
Some(x) == <<x>>
Option(S) == {None} \cup {Some(x) : x \in S}

\* ------------------------------------------------- the ABI descriptor
Function(name, input_id, output_id, inputs, outputs) ==
    [name |-> name, input_id |-> input_id, output_id |-> output_id,
     inputs |-> inputs, outputs |-> outputs]

Event(name, id, inputs) == [name |-> name, id |-> id, inputs |-> inputs]

\* Two functions and one event.  Selectors are unique among the functions'
\* inputs and among their outputs; an input selector may coincide with an
\* output selector or with the event's, and the event may carry the name
\* of a function.
AbiContracts ==
    {[functions |-> {Function("f", a, b, 1, 1),
                     Function("g", (a + 1) % (MaxId + 1), (b + 1) % (MaxId + 1), 0, 2)},
      events |-> {Event(en, e, 1)},
      header |-> HeaderLen] :
        a \in Ids, b \in Ids, e \in Ids, en \in {"ev", "f"}}

\* The responsible call whose answer is awaited: a function of the called
\* contract, the address the call was sent from, the answer selector.
ResponsibleCalls ==
    {[function |-> Function("r", 0, 1, 2, 1), src |-> "A", answer_id |-> w] :
        w \in Ids}

\* A message envelope: body is None when the message carries no body; an
\* external outbound message has no internal destination address.
Messages ==
    {m \in [is_internal : BOOLEAN, dst : Option(Addresses), body : Option(Slices)] :
        m.is_internal => m.dst # None}

\* ---------------------------------------------------------- results
Ok(body_type, name, value, header) ==
    [ok |-> TRUE, body_type |-> body_type, name |-> name, value |-> value,
     header |-> header, error |-> "", cause |-> ""]

Error(text, cause) ==
    [ok |-> FALSE, body_type |-> "", name |-> "", value |-> None,
     header |-> None, error |-> text, cause |-> cause]

NoResult == Error("", "")

\* --------------------------------------------- the token codec (ton_abi)
\* SliceData::get_next_u32: fails on a cursor shorter than one selector.
get_next_u32(slice) ==
    IF Len(slice) = 0
    THEN [ok |-> FALSE, value |-> 0, rest |-> slice, err |-> "CellUnderflow"]
    ELSE [ok |-> TRUE, value |-> Head(slice), rest |-> Tail(slice), err |-> ""]

\* TokenValue::decode_params: reads the described parameters; data left
\* after them is an error unless allow_partial.
decode_params(params, cursor, allow_partial_) ==
    IF Len(cursor) < params
    THEN [ok |-> FALSE, tokens |-> <<>>, err |-> "CellUnderflow"]
    ELSE IF Len(cursor) > params /\ ~allow_partial_
    THEN [ok |-> FALSE, tokens |-> <<>>, err |-> "IncompleteDeserialization"]
    ELSE [ok |-> TRUE, tokens |-> SubSeq(cursor, 1, params), err |-> ""]

\* Function::decode_header: an internal message has no header fields; the
\* selector follows the header.
decode_header(abi_, slice, is_internal_) ==
    LET n == IF is_internal_ THEN 0 ELSE abi_.header
    IN  IF Len(slice) < n + 1
        THEN [ok |-> FALSE, header |-> <<>>, func_id |-> 0, rest |-> slice]
        ELSE [ok |-> TRUE, header |-> SubSeq(slice, 1, n), func_id |-> slice[n + 1],
              rest |-> SubSeq(slice, n + 2, Len(slice))]

DecodedMessage(function_name, tokens) ==
    [ok |-> TRUE, function_name |-> function_name, tokens |-> tokens]

NotDecoded == [ok |-> FALSE, function_name |-> "", tokens |-> <<>>]

\* Contract::decode_output: the leading selector against the functions'
\* output selectors, then against the events'.
decode_output(abi_, slice, is_internal_, allow_partial_) ==
    LET id == get_next_u32(slice)
        fs == {f \in abi_.functions : id.ok /\ f.output_id = id.value}
        es == {e \in abi_.events : id.ok /\ e.id = id.value}
    IN  IF ~id.ok THEN NotDecoded
        ELSE IF fs # {}
        THEN LET f == CHOOSE x \in fs : TRUE
                 t == decode_params(f.outputs, id.rest, allow_partial_)
             IN  IF t.ok THEN DecodedMessage(f.name, t.tokens) ELSE NotDecoded
        ELSE IF es # {}
        THEN LET e == CHOOSE x \in es : TRUE
                 t == decode_params(e.inputs, id.rest, allow_partial_)
             IN  IF t.ok THEN DecodedMessage(e.name, t.tokens) ELSE NotDecoded
        ELSE NotDecoded

\* Contract::decode_input: the selector after the header against the
\* functions' input selectors.
decode_input(abi_, slice, is_internal_, allow_partial_) ==
    LET h == decode_header(abi_, slice, is_internal_)
        fs == {f \in abi_.functions : h.ok /\ f.input_id = h.func_id}
    IN  IF ~h.ok \/ fs = {} THEN NotDecoded
        ELSE LET f == CHOOSE x \in fs : TRUE
                 t == decode_params(f.inputs, h.rest, allow_partial_)
             IN  IF t.ok THEN DecodedMessage(f.name, t.tokens) ELSE NotDecoded

\* The encoder of a function call: header fields (external messages only),
\* input selector, arguments.
encode_input(abi_, f, header, args, is_internal_) ==
    (IF is_internal_ THEN <<>> ELSE header) \o <<f.input_id>> \o args

\* Detokenizer::detokenize_to_json_value: every integer token becomes its
\* decimal string.
Digits == <<"0", "1", "2", "3", "4", "5", "6", "7", "8", "9">>

RECURSIVE Decimal(_)
Decimal(n) ==
    IF n < Len(Digits) THEN Digits[n + 1]
    ELSE Decimal(n \div Len(Digits)) \o Digits[(n % Len(Digits)) + 1]

detokenize_to_json_value(tokens) ==
    [ok |-> TRUE, value |-> [i \in 1 .. Len(tokens) |-> Decimal(tokens[i])], err |-> ""]

\* FunctionHeader::from: no header tokens, no header.
FunctionHeader_from(tokens) ==
    [ok |-> TRUE, header |-> IF Len(tokens) = 0 THEN None ELSE Some(tokens)]

\* ------------------------------------------------- DecodedMessageBody
MessageBodyType == {"Input", "Output", "InternalOutput", "Event"}

\* DecodedMessageBody::new
new(body_type, decoded, header) ==
    LET value == detokenize_to_json_value(decoded.tokens)
    IN  IF value.ok
        THEN Ok(body_type, decoded.function_name, Some(value.value), header)
        ELSE Error("InvalidMessage", value.err)

\* A guard that leaves out the is_internal test.
GuardIgnoresInternal(internal_dst_, responsible_, is_internal_) ==
    /\ internal_dst_ # None
    /\ responsible_ # None
    /\ internal_dst_[1] = responsible_[1].src

\* The guard of the first match arm of decode.
Guard(internal_dst_, responsible_, is_internal_) ==
    /\ internal_dst_ # None
    /\ responsible_ # None
    /\ is_internal_
    /\ internal_dst_[1] = responsible_[1].src

\* What a matcher step hands on: a returned result, or the fall through to
\* the general classifier with the arm's cursor.
Returned(res) == [returned |-> TRUE, result |-> res, cursor |-> <<>>]
FallThrough(cursor) == [returned |-> FALSE, result |-> NoResult, cursor |-> cursor]

\* An unreadable selector treated as a non-match.
SelectorUnreadableFallsBack(slice, err) == FallThrough(slice)

\* The selector could not be read: `?` returns the error.
SelectorUnreadable(slice, err) ==
    Returned(Error("Can't decode function header", err))

\* The input schema in place of the output schema.
ResponsibleInputParams(function) == function.inputs

\* The parameter schema the responsible answer is decoded against.
ResponsibleParams(function) == function.outputs

\* An undecodable answer treated as a non-match.
ResponsibleUndecodableFallsBack(cursor, err) == FallThrough(cursor)

\* The decode_params of the responsible arm failed: `?` returns the error.
ResponsibleUndecodable(cursor, err) ==
    Returned(Error("Responsible function output can't be decoded", err))

\* The arm of decode taken when the guard holds.
ResponsibleArm(abi_, r, slice, allow_partial_) ==
    LET receiver_func_id == get_next_u32(slice)
    IN  IF ~receiver_func_id.ok
        THEN SelectorUnreadable(slice, receiver_func_id.err)
        ELSE IF receiver_func_id.value = r.answer_id
        THEN LET tokens == decode_params(ResponsibleParams(r.function),
                                         receiver_func_id.rest, allow_partial_)
             IN  IF tokens.ok
                 THEN Returned(new("InternalOutput",
                                   DecodedMessage(r.function.name, tokens.tokens), None))
                 ELSE ResponsibleUndecodable(receiver_func_id.rest, tokens.err)
        ELSE FallThrough(receiver_func_id.rest)

\* The match statement of decode.
Match(abi_, responsible_, slice, is_internal_, internal_dst_, allow_partial_) ==
    IF Guard(internal_dst_, responsible_, is_internal_)
    THEN ResponsibleArm(abi_, responsible_[1], slice, allow_partial_)
    ELSE FallThrough(slice)

\* The reads of the body the match statement makes.
MatchReads(responsible_, slice, is_internal_, internal_dst_) ==
    IF Guard(internal_dst_, responsible_, is_internal_)
    THEN LET id == get_next_u32(slice)
         IN  <<[op |-> "get_next_u32", slice |-> slice]>> \o
             (IF id.ok /\ id.value = responsible_[1].answer_id
              THEN <<[op |-> "decode_params", slice |-> id.rest]>> ELSE <<>>)
    ELSE <<>>

\* The arm's cursor, selector consumed, in place of the parameter.
ClassifierBodyConsumed(slice, cursor) == cursor

\* The body the general classifier starts from: the function's own
\* parameter, which the arm's shadowing clone leaves untouched.
ClassifierBody(slice, cursor) == slice

\* No look-up in the event table.
OutputTypeAlwaysOutput(abi_, function_name) == "Output"

\* Event or Output, by the event table.
OutputType(abi_, function_name) ==
    IF \E e \in abi_.events : e.name = function_name THEN "Event" ELSE "Output"

\* An `if` in place of the `else if`.
InputTrialAlways(output_) == TRUE

\* Whether the `else if` of the input trial is reached.
InputTrialReached(output_) == ~output_.ok

\* An Input result without its header.
InputHeaderDropped(header_tokens) == [ok |-> TRUE, header |-> None]

\* The header attached to an Input result.
InputHeader(header_tokens) == FunctionHeader_from(header_tokens)

\* The input arm and the final else of decode.
InputArm(abi_, slice, is_internal_, allow_partial_) ==
    LET input == decode_input(abi_, slice, is_internal_, allow_partial_)
        header == decode_header(abi_, slice, is_internal_)
        fh == InputHeader(header.header)
    IN  IF input.ok
        THEN IF ~header.ok THEN Error("Can't decode function header", "CellUnderflow")
             ELSE IF ~fh.ok THEN Error("InvalidMessage", "header")
             ELSE new("Input", input, fh.header)
        ELSE Error("The message body does not match the specified ABI", "")

\* The general classifier as a whole: output trial, then input trial.
Classify(abi_, slice, is_internal_, allow_partial_) ==
    LET out == decode_output(abi_, slice, is_internal_, allow_partial_)
    IN  IF out.ok THEN new(OutputType(abi_, out.function_name), out, None)
        ELSE InputArm(abi_, slice, is_internal_, allow_partial_)

\* DecodedMessageBody::decode as a function of its six arguments.
decode(abi_, responsible_, slice, is_internal_, internal_dst_, allow_partial_) ==
    LET m == Match(abi_, responsible_, slice, is_internal_, internal_dst_, allow_partial_)
    IN  IF m.returned THEN m.result
        ELSE Classify(abi_, ClassifierBody(slice, m.cursor), is_internal_, allow_partial_)

\* ------------------------------------------------------ entry points
NoAbi == [functions |-> {}, events |-> {}, header |-> 0]

\* params.abi and params.message as the caller supplies them: a JSON text
\* and a BOC that load, or that do not.
AbiParams ==
    {[valid |-> TRUE, contract |-> a] : a \in AbiContracts}
        \cup {[valid |-> FALSE, contract |-> NoAbi]}

MessageParams ==
    {[valid |-> TRUE, object |-> m] : m \in Messages}
        \cup {[valid |-> FALSE,
               object |-> [is_internal |-> FALSE, dst |-> None, body |-> None]]}

BodyParams ==
    {[valid |-> TRUE, slice |-> b] : b \in Slices}
        \cup {[valid |-> FALSE, slice |-> <<>>]}

prepare_decode(params_abi, params_message) ==
    IF ~params_abi.valid THEN Error("InvalidJson", "abi")
    ELSE IF ~params_message.valid THEN Error("InvalidMessage", "message")
    ELSE NoResult

\* A missing body taken as an empty slice.
BodyOrEmptySlice(msg) ==
    [present |-> TRUE, slice |-> IF msg.body = None THEN <<>> ELSE msg.body[1]]

\* `if let Some(body) = message.body()`: whether decode is entered, and on
\* which slice.
MessageBody(msg) ==
    [present |-> msg.body # None, slice |-> IF msg.body = None THEN <<>> ELSE msg.body[1]]

\* The state of a call that ended before decode was entered.
EndedEarly(entry_, message_, res) ==
    /\ pc' = "done"
    /\ entry' = entry_
    /\ message' = message_
    /\ result' = res
    /\ abi' = NoAbi
    /\ responsible' = None
    /\ body' = <<>>
    /\ is_internal' = FALSE
    /\ internal_dst' = None
    /\ allow_partial' = FALSE
    /\ classifier_body' = <<>>
    /\ output' = NotDecoded
    /\ trace' = <<>>

\* The call of DecodedMessageBody::decode with its six arguments.
CallDecode(entry_, message_, abi_, responsible_, slice, is_internal_, internal_dst_, allow_partial_) ==
    /\ pc' = "decode"
    /\ entry' = entry_
    /\ message' = message_
    /\ abi' = abi_
    /\ responsible' = responsible_
    /\ body' = slice
    /\ is_internal' = is_internal_
    /\ internal_dst' = internal_dst_
    /\ allow_partial' = allow_partial_
    /\ result' = NoResult
    /\ classifier_body' = <<>>
    /\ output' = NotDecoded
    /\ trace' = <<>>

\* The body shared by both envelope entry points.
FromEnvelope(entry_, params_abi, params_message, responsible_, allow_partial_) ==
    LET prepared == prepare_decode(params_abi, params_message)
        msg == params_message.object
        b == MessageBody(msg)
    IN  IF prepared # NoResult
        THEN EndedEarly(entry_, None, prepared)
        ELSE IF b.present
        THEN CallDecode(entry_, Some(msg), params_abi.contract, responsible_, b.slice,
                        msg.is_internal, msg.dst, allow_partial_)
        ELSE EndedEarly(entry_, Some(msg), Error("The message body is empty", ""))

\* DecodedMessageBody::decode_message
DecodedMessageBody_decode_message ==
    /\ pc = "idle"
    /\ \E params_abi \in AbiParams, params_message \in MessageParams,
          responsible_ \in Option(ResponsibleCalls), allow_partial_ \in BOOLEAN :
            FromEnvelope("DecodedMessageBody::decode_message", params_abi,
                         params_message, responsible_, allow_partial_)

\* The api function decode_message
decode_message ==
    /\ pc = "idle"
    /\ \E params_abi \in AbiParams, params_message \in MessageParams,
          allow_partial_ \in BOOLEAN :
            FromEnvelope("decode_message", params_abi, params_message, None,
                         allow_partial_)

\* The api function decode_message_body
decode_message_body ==
    /\ pc = "idle"
    /\ \E params_abi \in AbiParams, params_body \in BodyParams,
          is_internal_ \in BOOLEAN, allow_partial_ \in BOOLEAN :
            IF ~params_abi.valid
            THEN EndedEarly("decode_message_body", None, Error("InvalidJson", "abi"))
            ELSE IF ~params_body.valid
            THEN EndedEarly("decode_message_body", None, Error("InvalidBoc", "message body"))
            ELSE CallDecode("decode_message_body", None, params_abi.contract, None,
                            params_body.slice, is_internal_, None, allow_partial_)

\* ---------------------------------------------------- steps of decode
Frame == <<entry, message, abi, responsible, body, is_internal, internal_dst,
           allow_partial>>

\* The match on (internal_dst, responsible).
MatchStep ==
    /\ pc = "decode"
    /\ LET m == Match(abi, responsible, body, is_internal, internal_dst, allow_partial)
       IN  /\ trace' = MatchReads(responsible, body, is_internal, internal_dst)
           /\ IF m.returned
              THEN /\ pc' = "done"
                   /\ result' = m.result
                   /\ classifier_body' = classifier_body
              ELSE /\ pc' = "output_trial"
                   /\ result' = result
                   /\ classifier_body' = ClassifierBody(body, m.cursor)
    /\ UNCHANGED <<Frame, output>>

\* `if let Ok(output) = abi.decode_output(body.clone(), ...)`
OutputTrial ==
    /\ pc = "output_trial"
    /\ LET out == decode_output(abi, classifier_body, is_internal, allow_partial)
       IN  /\ output' = out
           /\ trace' = Append(trace, [op |-> "decode_output", slice |-> classifier_body])
           /\ result' = IF out.ok THEN new(OutputType(abi, out.function_name), out, None)
                        ELSE result
           /\ pc' = IF InputTrialReached(out) THEN "input_trial" ELSE "done"
    /\ UNCHANGED <<Frame, classifier_body>>

\* `else if let Ok(input) = abi.decode_input(body.clone(), ...)` and the
\* final else.
InputTrial ==
    /\ pc = "input_trial"
    /\ result' = InputArm(abi, classifier_body, is_internal, allow_partial)
    /\ trace' = Append(trace, [op |-> "decode_input", slice |-> classifier_body])
    /\ pc' = "done"
    /\ UNCHANGED <<Frame, classifier_body, output>>

\* The result is handed to the caller; the next call starts afresh.
Return ==
    /\ pc = "done"
    /\ pc' = "idle"
    /\ entry' = ""
    /\ message' = None
    /\ abi' = NoAbi
    /\ responsible' = None
    /\ body' = <<>>
    /\ is_internal' = FALSE
    /\ internal_dst' = None
    /\ allow_partial' = FALSE
    /\ classifier_body' = <<>>
    /\ output' = NotDecoded
    /\ result' = NoResult
    /\ trace' = <<>>

Init ==
    /\ pc = "idle"
    /\ entry = ""
    /\ message = None
    /\ abi = NoAbi
    /\ responsible = None
    /\ body = <<>>
    /\ is_internal = FALSE
    /\ internal_dst = None
    /\ allow_partial = FALSE
    /\ classifier_body = <<>>
    /\ output = NotDecoded
    /\ result = NoResult
    /\ trace = <<>>

Next ==
    \/ DecodedMessageBody_decode_message
    \/ decode_message
    \/ decode_message_body
    \/ MatchStep
    \/ OutputTrial
    \/ InputTrial
    \/ Return

Spec == Init /\ [][Next]_vars

\* -------------------------------------------------------- properties
Done == pc = "done"

\* decode was entered by the call that has ended.
DecodeEntered == Done /\ trace # <<>>

\* The guard of the responsible arm, on the arguments of the call.
GuardHolds ==
    /\ responsible # None
    /\ is_internal
    /\ internal_dst # None
    /\ internal_dst[1] = responsible[1].src

SelectorReadable == Len(body) >= 1

SelectorMatches == SelectorReadable /\ body[1] = responsible[1].answer_id

Ops == {trace[i].op : i \in 1 .. Len(trace)}

TrialOps == {"decode_output", "decode_input"}

Mismatch == "The message body does not match the specified ABI"

\* The steps compute what decode computes.
StepsComputeDecode ==
    DecodeEntered =>
        result = decode(abi, responsible, body, is_internal, internal_dst, allow_partial)

\* C1: with a responsible context, an internal message, internal_dst equal
\* to responsible.src, a leading selector equal to responsible.answer_id and
\* a rest that decodes against the responsible function's output
\* parameters, the result is InternalOutput with the responsible function's
\* name, the detokenized output values and no header, whatever the general
\* classifier returns for the same body.
ResponsibleReplyPrecedence ==
    (Done /\ GuardHolds /\ SelectorMatches
          /\ decode_params(responsible[1].function.outputs, Tail(body), allow_partial).ok)
    => /\ result.ok
       /\ result.body_type = "InternalOutput"
       /\ result.name = responsible[1].function.name
       /\ result.header = None
       /\ result.value =
            Some(detokenize_to_json_value(
                   decode_params(responsible[1].function.outputs, Tail(body),
                                 allow_partial).tokens).value)
       /\ Ops \cap TrialOps = {}

\* A responsible reply that the general classifier would have returned as
\* something else.
ResponsibleReplyPrecedenceWitness ==
    /\ Done /\ GuardHolds /\ SelectorMatches
    /\ result.ok /\ result.body_type = "InternalOutput"
    /\ Classify(abi, body, is_internal, allow_partial).ok
    /\ Classify(abi, body, is_internal, allow_partial).name # result.name

\* C2: when the guard holds and the leading selector is readable but differs
\* from responsible.answer_id, both trials of the general classifier get the
\* original body with nothing consumed, and the result is the result of the
\* general classifier on that body, which is also the result of every call
\* of decode with no responsible context.
ResponsibleReplyNonMatch ==
    /\ (Done /\ GuardHolds /\ SelectorReadable /\ ~SelectorMatches)
       => /\ classifier_body = body
          /\ \A i \in 1 .. Len(trace) :
                trace[i].op \in TrialOps => trace[i].slice = body
          /\ result = Classify(abi, body, is_internal, allow_partial)
          /\ result = decode(abi, None, body, is_internal, internal_dst, allow_partial)
    /\ (DecodeEntered /\ responsible = None)
       => result = Classify(abi, body, is_internal, allow_partial)

\* A non-matching reply that the general classifier decodes.
ResponsibleReplyNonMatchWitness ==
    /\ Done /\ GuardHolds /\ SelectorReadable /\ ~SelectorMatches
    /\ Len(body) >= 2
    /\ result.ok

\* C3: when the guard holds and the body is too short for the selector,
\* decode returns the malformed-selector error at once: no trial is run and
\* the schema-mismatch error is not returned.
MalformedSelectorIsTerminal ==
    /\ (GuardHolds /\ ~SelectorReadable) => pc \notin {"output_trial", "input_trial"}
    /\ (Done /\ GuardHolds /\ ~SelectorReadable)
       => /\ result = Error("Can't decode function header", "CellUnderflow")
          /\ result.error # Mismatch
          /\ Ops = {"get_next_u32"}

MalformedSelectorIsTerminalWitness ==
    /\ Done /\ GuardHolds /\ ~SelectorReadable
    /\ result.error = "Can't decode function header"
    /\ ~Classify(abi, body, is_internal, allow_partial).ok

\* The strict decode of the first k words of the body, in the call's context.
StrictPrefix(k) ==
    decode(abi, responsible, SubSeq(body, 1, k), is_internal, internal_dst, FALSE)

\* The body holds all parameters of the schema it matches, then more data.
TrailingData ==
    \E k \in 0 .. Len(body) - 1 :
        /\ StrictPrefix(k).ok
        /\ decode(abi, responsible, body, is_internal, internal_dst, TRUE)
             = StrictPrefix(k)

\* C4: a body that holds all parameters of the matched schema followed by
\* trailing data decodes to those parameters when allow_partial is true, and
\* fails with the incomplete-deserialization error, not the schema-mismatch
\* error, when allow_partial is false.
PartialDecodePolicy ==
    (DecodeEntered /\ TrailingData)
    => IF allow_partial
       THEN result.ok
       ELSE /\ ~result.ok
            /\ result.cause = "IncompleteDeserialization"
            /\ result.error # Mismatch

\* The body is the encoding of a call of function f of the descriptor.
ValidInputOf(f) ==
    LET n == IF is_internal THEN 0 ELSE abi.header
        header == SubSeq(body, 1, n)
        args == SubSeq(body, n + 2, Len(body))
    IN  /\ Len(body) >= n + 1
        /\ Len(args) = f.inputs
        /\ body = encode_input(abi, f, header, args, is_internal)

\* The header fields encoded in the body.
EncodedHeader ==
    IF is_internal \/ abi.header = 0 THEN None ELSE Some(SubSeq(body, 1, abi.header))

InputResultOf(f) ==
    /\ result.ok
    /\ result.body_type = "Input"
    /\ result.name = f.name
    /\ result.header = EncodedHeader

\* C5 as stated: every validly encoded input body of a function of the
\* descriptor, decoded with no matching responsible context, is returned as
\* Input with the function's name and the encoded header fields.
InputClassificationAsStated ==
    \A f \in abi.functions :
        (DecodeEntered /\ ~(GuardHolds /\ SelectorMatches) /\ ValidInputOf(f))
        => InputResultOf(f)

\* C5 as amended: the same, for the bodies the output trial does not accept.
InputClassification ==
    \A f \in abi.functions :
        (DecodeEntered /\ ~(GuardHolds /\ SelectorMatches) /\ ValidInputOf(f)
            /\ ~decode_output(abi, body, is_internal, allow_partial).ok)
        => InputResultOf(f)

\* An external call with its header field, returned as Input.
InputClassificationWitness ==
    /\ DecodeEntered /\ ~is_internal
    /\ \E f \in abi.functions : ValidInputOf(f) /\ InputResultOf(f)
    /\ result.header # None
    /\ ~decode_output(abi, body, is_internal, allow_partial).ok

\* C6: whenever the output trial succeeds, the result is Event if the
\* decoded name is a key of the event table and Output otherwise, with the
\* decoded name and no header.
OutputOrEvent ==
    (Done /\ output.ok)
    => /\ result.ok
       /\ result.name = output.function_name
       /\ result.header = None
       /\ result.body_type =
            IF output.function_name \in {e.name : e \in abi.events}
            THEN "Event" ELSE "Output"

\* The output of a function whose name is also a key of the event table.
OutputOrEventWitness ==
    /\ Done /\ output.ok
    /\ result.body_type = "Event"
    /\ \E f \in abi.functions :
          f.name = result.name /\ f.output_id = body[1]

\* C7: both envelope entry points, on a message that carries no body,
\* return the empty-body error without entering decode.
EmptyBody ==
    (Done /\ entry \in {"DecodedMessageBody::decode_message", "decode_message"}
          /\ message # None /\ message[1].body = None)
    => /\ result = Error("The message body is empty", "")
       /\ result.error # Mismatch
       /\ trace = <<>>

EmptyBodyWitness ==
    /\ Done /\ entry = "DecodedMessageBody::decode_message"
    /\ message # None /\ message[1].body = None
    /\ message[1].is_internal
    /\ result.error = "The message body is empty"

Trials == SelectSeq(trace, LAMBDA t : t.op \in TrialOps)

\* C9: the output trial runs first and the input trial only after the output
\* trial failed, each on the original body; a body both trials accept is
\* returned as Output or Event; the schema-mismatch error is returned only
\* when both trials failed.
TrialOrder ==
    /\ \/ Trials = <<>>
       \/ Trials = <<[op |-> "decode_output", slice |-> body]>>
       \/ Trials = <<[op |-> "decode_output", slice |-> body],
                     [op |-> "decode_input", slice |-> body]>>
    /\ "decode_input" \in Ops => ~output.ok
    /\ pc = "input_trial" => ("decode_output" \in Ops /\ ~output.ok)
    /\ (Done /\ "decode_output" \in Ops
             /\ decode_output(abi, body, is_internal, allow_partial).ok
             /\ decode_input(abi, body, is_internal, allow_partial).ok)
       => (result.ok /\ result.body_type \in {"Output", "Event"})
    /\ (Done /\ result.error = Mismatch)
       => /\ ~decode_output(abi, body, is_internal, allow_partial).ok
          /\ ~decode_input(abi, body, is_internal, allow_partial).ok
          /\ Len(Trials) = 2

\* A body both trials accept.
TrialOrderWitness ==
    /\ Done /\ Trials = <<[op |-> "decode_output", slice |-> body]>>
    /\ decode_output(abi, body, is_internal, allow_partial).ok
    /\ decode_input(abi, body, is_internal, allow_partial).ok
    /\ result.body_type = "Output"

\* C10: when the guard holds, the selector equals responsible.answer_id and
\* the rest does not decode against the responsible function's output
\* parameters, decode returns that error and runs no trial.
ResponsibleDecodeFailureIsTerminal ==
    /\ (GuardHolds /\ SelectorMatches) => pc \notin {"output_trial", "input_trial"}
    /\ (Done /\ GuardHolds /\ SelectorMatches
             /\ ~decode_params(responsible[1].function.outputs, Tail(body),
                               allow_partial).ok)
       => /\ result = Error("Responsible function output can't be decoded",
                            decode_params(responsible[1].function.outputs, Tail(body),
                                          allow_partial).err)
          /\ Ops \cap TrialOps = {}

\* A reply with trailing data that the general classifier would have decoded.
ResponsibleDecodeFailureIsTerminalWitness ==
    /\ Done /\ GuardHolds /\ SelectorMatches
    /\ result.cause = "IncompleteDeserialization"
    /\ Classify(abi, body, is_internal, allow_partial).ok

====
